---- MODULE Spec2Model ----
(***************************************************************************)
(* Model of the edge video-analytics pipeline:                             *)
(*   scripts/yolo_detection_self.py  - main loop (orchestrator), detection *)
(*                                     filter, stream reconnect, shutdown  *)
(*   scripts/detection_reader.py     - DetectionReader (location poller)   *)
(*                                                                         *)
(* Two units of execution are interleaved: the main thread (position mpc)  *)
(* and the DetectionReader background threads (positions tpc[t]).  Time is *)
(* the value time.time() - previous_detection, which only grows while the  *)
(* main thread is blocked in a call (frame read, detector, sleep).         *)
(***************************************************************************)
EXTENDS Integers, Sequences, FiniteSets, TLC

\* ------------------------------------------------------------------ bounds
MaxFrames == 3
MaxHandles == 3
MaxElapsed == 16
MaxThreads == 2
MaxBoxes == 2
SubPixel == 2

\* ------------------------------------------------------- program constants
InitialPeriod == 3
FoundPeriod == 15
EmptyPeriod == 7
CoolDown == 100
RatioNum == 9
RatioDen == 10

valid_path == {"a", "b"}

ClassifiedTypes == {"bicylce", "pets", "vehicle", "person"}

\* Python's None, and a key that a dict does not hold.
None == "<None>"
Missing == "<missing>"

Min(a, b) == IF a < b THEN a ELSE b

\* ------------------------------------------------------------ environment
\* Identifiers the location feed may report.
FeedNames == {"a", "c"}

\* The value found under data['detection'] in a feed reply.
\*   type "absent": the key is not in data; "null": JSON null; "str": a JSON
\*   string; "dict": an object, with InPathName (or Missing) and maybe others.
Det(type, name, others) == [type |-> type, InPathName |-> name, others |-> others]

NoDet == Det("absent", Missing, FALSE)

DetectionValues ==
    { NoDet, Det("null", Missing, FALSE), Det("str", Missing, FALSE),
      Det("dict", Missing, FALSE), Det("dict", Missing, TRUE),
      Det("dict", "", TRUE) }
    \cup { Det("dict", n, TRUE) : n \in FeedNames }

Resp(kind, status, det) == [kind |-> kind, status |-> status, detection |-> det]

\* Every reply of GET /api/detections that is told apart by the reader.
Responses ==
    { Resp("transport_error", "", NoDet), Resp("http_error", "", NoDet),
      Resp("not_json", "", NoDet), Resp("json_non_object", "", NoDet),
      Resp("json_object", "error", NoDet) }
    \cup { Resp("json_object", "success", d) : d \in DetectionValues }

\* Configuration documents: the keys present in each section for this run's
\* model type and stream.
AllKeys == {"models", "robot", "camera", "classes", "confidence"}

ConfigChoices ==
    { [model_type |-> "person", keys |-> AllKeys] }
    \cup { [model_type |-> "person", keys |-> AllKeys \ {k}] : k \in AllKeys }
    \cup { [model_type |-> "fire", keys |-> AllKeys \ {"classes"}] }

\* Frame sizes (width, height) and detector coordinates in 1/SubPixel pixels.
FrameSizes == { <<10, 1>>, <<10, 2>> }

Box(x1, y1, x2, y2) == [x1 |-> x1, y1 |-> y1, x2 |-> x2, y2 |-> y2]

\* A detector result: result.boxes is None (has_boxes FALSE) or a list of
\* boxes, each box.xyxy[0] a Box.
Result(has_boxes, boxes) == [has_boxes |-> has_boxes, boxes |-> boxes]

\* ------------------------------------------------------------- detection
\* dict.update({k: v})
Update(d, k, v) == [x \in DOMAIN d \cup {k} |-> IF x = k THEN v ELSE d[x]]

\* int(c) of a coordinate held in 1/SubPixel pixels: truncation toward zero.
IntOf(c) == IF c >= 0 THEN c \div SubPixel ELSE -((-c) \div SubPixel)

\* x1, y1, x2, y2 = map(int, box.xyxy[0].tolist())
IntBox(b) == Box(IntOf(b.x1), IntOf(b.y1), IntOf(b.x2), IntOf(b.y2))

\* Mutant of KeepBox: the comparison written <= 0.9.
KeepBoxInclusive(ib, frame) ==
    RatioDen * ((ib.x2 - ib.x1) * (ib.y2 - ib.y1)) <= RatioNum * (frame[1] * frame[2])

\* (x2 - x1) * (y2 - y1) / (frame_height * frame_width) < 0.9, on the integer
\* coordinates; the quotient is compared exactly (frame areas are far below
\* the sizes at which the float quotient could round onto 0.9).
KeepBox(ib, frame) ==
    RatioDen * ((ib.x2 - ib.x1) * (ib.y2 - ib.y1)) < RatioNum * (frame[1] * frame[2])

\* The dict appended to detections for a kept box.
BoxEntry(ib) ==
    [x1 |-> ib.x1, y1 |-> ib.y1, x2 |-> ib.x2, y2 |-> ib.y2,
     width |-> ib.x2 - ib.x1, height |-> ib.y2 - ib.y1]

\* The boxes visited by the two nested loops, in order; a result whose boxes
\* is None is skipped.
RECURSIVE AllBoxes(_)
AllBoxes(results) ==
    IF results = <<>> THEN <<>>
    ELSE (IF Head(results).has_boxes THEN Head(results).boxes ELSE <<>>)
         \o AllBoxes(Tail(results))

RECURSIVE FilterBoxes(_, _)
FilterBoxes(boxes, frame) ==
    IF boxes = <<>> THEN <<>>
    ELSE LET ib == IntBox(Head(boxes))
             rest == FilterBoxes(Tail(boxes), frame)
         IN  IF KeepBox(ib, frame) THEN <<ib>> \o rest ELSE rest

\* detection(detector, frame, json_tmp, conf_threshold, class_list), given
\* what detector.predict returned.
detection(results, frame, json_tmp) ==
    LET kept == FilterBoxes(AllBoxes(results), frame)
    IN  [frame_detection |->
             Update(json_tmp, "bounding_box", [i \in 1..Len(kept) |-> BoxEntry(kept[i])]),
         bbox_list |-> [i \in 1..Len(kept) |-> <<kept[i].x1, kept[i].x2, kept[i].y1, kept[i].y2>>]]

\* get_config(config_type, key, config): TRUE when the key is found, FALSE
\* when it calls sys.exit(1).
get_config(config_type, keys) == config_type \in keys

\* --------------------------------------------------------- DetectionReader
PyNone == Det("null", Missing, FALSE)

\* bool(detection): None and {} are falsy, a non-empty dict or string is not.
Truthy(d) ==
    \/ d.type = "str"
    \/ d.type = "dict" /\ (d.InPathName # Missing \/ d.others)

\* bool(pathname)
TruthyName(n) == n \notin {None, ""}

\* get_detection(): the value returned for a reply, or raised when an
\* exception other than RequestException / JSONDecodeError leaves it
\* (data.get on a JSON value that is not an object).
get_detection(resp) ==
    CASE resp.kind = "transport_error" -> [raised |-> FALSE, value |-> PyNone]
      [] resp.kind = "http_error" -> [raised |-> FALSE, value |-> PyNone]
      [] resp.kind = "not_json" -> [raised |-> FALSE, value |-> PyNone]
      [] resp.kind = "json_non_object" -> [raised |-> TRUE, value |-> PyNone]
      [] OTHER ->
           IF resp.status # "success" THEN [raised |-> FALSE, value |-> PyNone]
           ELSE IF resp.detection.type = "absent" THEN [raised |-> FALSE, value |-> PyNone]
           ELSE [raised |-> FALSE, value |-> resp.detection]

\* detection.get('InPathName')
InPathNameOf(d) == IF d.InPathName = Missing THEN None ELSE d.InPathName

\* The identifier of a reply that parses to a usable location record, or
\* Missing when the reply holds none.
UsableName(resp) ==
    IF /\ resp.kind = "json_object"
       /\ resp.status = "success"
       /\ resp.detection.type = "dict"
       /\ resp.detection.InPathName \notin {Missing, ""}
    THEN resp.detection.InPathName
    ELSE Missing

\* ------------------------------------------------------------------ state
VARIABLES
    config,            \* the configuration document and args.type
    mpc,               \* position of the main thread
    path_name,         \* main: the location read at the top of the iteration
    frame_count,       \* main: frames read successfully
    elapsed,           \* time.time() - previous_detection, saturating at MaxElapsed
    detection_period,  \* main: the cadence
    posted_warning,    \* main: the 'not in detection area' warning was printed
    handles,           \* release() calls made on each VideoCapture created, in order
    opened,            \* isOpened() of video_cap, the last handle created
    frame_detection,   \* main: the envelope between detection() and the POST
    bbox_list,         \* main: bbox_list between detection() and the POST
    exit_status,       \* -1 while running, else the status the process exits with
    reported,          \* the frame count printed in the finally block, -1 before
    running,           \* DetectionReader.running
    thread,            \* DetectionReader.thread: 0 for None, else a thread id
    pathname,          \* DetectionReader.pathname
    last_detection,    \* DetectionReader.last_detection
    lock,              \* DetectionReader.lock: 0 when free, else the holder's id
    tpc,               \* position of each reader thread
    det,               \* each reader thread's local 'detection'
    iter,              \* history: what this iteration of the main loop has done:
                       \*          how the frame was throttled or gated and how the
                       \*          clock stood against the cadence, detector
                       \*          invoked, boxes it left in the envelope,
                       \*          envelopes published, the last one, and how
                       \*          the POST went
    lastOutcome,       \* history: "none", or whether "some" or "zero" boxes survived
                       \*          in the last completed detection attempt
    nFail,             \* history: frame reads that failed
    nCool,             \* history: cool-down sleeps completed
    unguarded,         \* history: kinds of access to pathname made without the lock
    last_good,         \* history: identifier of the last usable location record
    interrupted,       \* history: a KeyboardInterrupt was delivered
    nWarn,             \* history: 'not in detection area' warnings printed
    nResume,           \* history: 'resuming' notices printed
    cpc,               \* position of the caller of start_reading / stop_reading
    last_call,         \* history: the last start_reading / stop_reading call made
    d_frame,           \* detection() on its own: the frame size
    d_results,         \* detection() on its own: what the detector returned
    d_out              \* detection() on its own: its return value, once applied

vars == <<config, mpc, path_name, frame_count, elapsed, detection_period,
          posted_warning, handles, opened, frame_detection, bbox_list,
          exit_status, reported, running, thread, pathname, last_detection,
          lock, tpc, det, iter, lastOutcome, nFail, nCool, unguarded,
          last_good, interrupted, nWarn, nResume, cpc, last_call,
          d_frame, d_results, d_out>>

mainVars == <<mpc, path_name, frame_count, elapsed, detection_period,
              posted_warning, handles, opened, frame_detection, bbox_list,
              exit_status, reported>>
readerVars == <<running, thread, pathname, last_detection, lock, tpc, det>>
mainHist == <<iter, lastOutcome, nFail, nCool, interrupted>>
detVars == <<d_frame, d_results, d_out>>
logHist == <<nWarn, nResume>>
callerVars == <<cpc, last_call>>

Threads == 1..MaxThreads

NoEnvelope == [model_type |-> ""]
NoIter ==
    [gate |-> "", margin |-> "", detected |-> FALSE, survivors |-> 0, published |-> 0,
     envelope |-> NoEnvelope, post |-> ""]

\* No start_reading / stop_reading call made yet.
NoCall == [op |-> "none", before |-> FALSE, asleep |-> {}]
NotApplied == [frame_detection |-> NoEnvelope, bbox_list |-> <<>>, applied |-> FALSE]

\* What the detector returns in the full system, in 1/SubPixel pixels.
SmallBox == Box(0, 0, 4 * SubPixel, 1 * SubPixel)
WideBox == Box(0, 0, 10 * SubPixel, 1 * SubPixel)

DetectorOutputs ==
    { <<>>, <<Result(FALSE, <<>>)>>, <<Result(TRUE, <<SmallBox>>)>>,
      <<Result(TRUE, <<WideBox>>)>>, <<Result(TRUE, <<WideBox, SmallBox>>)>> }

\* The main thread entering main() at line 131, about to open the stream
\* (line 147); the loop state of lines 154-159 holds its initial values.
InitMain ==
    /\ config \in ConfigChoices
    /\ mpc = "init"
    /\ path_name = ""
    /\ frame_count = 0
    /\ elapsed = 0
    /\ detection_period = InitialPeriod
    /\ posted_warning = FALSE
    /\ handles = <<>>
    /\ opened = FALSE
    /\ frame_detection = NoEnvelope
    /\ bbox_list = <<>>
    /\ exit_status = -1
    /\ reported = -1
    /\ iter = NoIter
    /\ lastOutcome = "none"
    /\ nFail = 0
    /\ nCool = 0
    /\ interrupted = FALSE
    /\ nWarn = 0
    /\ nResume = 0

\* DetectionReader.__init__ with auto_start: start_reading() has run.
InitReader ==
    /\ running = TRUE
    /\ thread = 1
    /\ pathname = ""
    /\ last_detection = PyNone
    /\ lock = 0
    /\ tpc = [t \in Threads |-> IF t = 1 THEN "check" ELSE "unborn"]
    /\ det = [t \in Threads |-> PyNone]
    /\ unguarded = {}
    /\ last_good = ""
    /\ cpc = "idle"
    /\ last_call = NoCall

InitDetIdle ==
    /\ d_frame = <<1, 1>>
    /\ d_results = <<>>
    /\ d_out = NotApplied

Init == InitMain /\ InitReader /\ InitDetIdle

\* ------------------------------------------------------------ main thread
\* Positions inside the try block of main (lines 161-214).
TryPcs == {"loop", "read", "detect", "post", "release", "sleep", "reopen"}

\* The process has exited: after the finally block, or at the startup exit.
Exited == mpc \in {"done", "aborted"}

Advance(e, dt) == Min(e + dt, MaxElapsed)

\* The instants at which the environment lets a frame read return: the clock
\* start, each cadence and the second after it, and the saturation point.
TimePoints ==
    {0, MaxElapsed} \cup UNION { {p, p + 1} : p \in {InitialPeriod, EmptyPeriod, FoundPeriod} }

\* Mutant of NotInArea: an unknown location (None) is let through.
NotInAreaUnlessUnknown(p) == p \notin valid_path \cup {None}

\* path_name not in valid_path  (line 168)
NotInArea(p) == p \notin valid_path

\* Mutant of DetectionDue: the test of line 167 taken as >=.
DetectionDueInclusive(e, period) == e >= period

\* (time.time() - previous_detection) > detection_period  (line 167)
DetectionDue(e, period) == e > period

\* How the clock stands against the cadence when the frame read returns.
Margin(e, period) == IF e < period THEN "below" ELSE IF e = period THEN "equal" ELSE "above"

\* Mutant of WarnNow: the warning is printed at every gated attempt.
WarnAlways(pw) == TRUE

\* line 169: if not posted_warning
WarnNow(pw) == ~pw

\* line 174: elif posted_warning
ResumeNow(pw) == pw

\* Mutant of ShouldPost: the envelope is posted after every attempt.
ShouldPostAlways(bl) == TRUE

\* len(bbox_list) != 0  (line 195)
ShouldPost(bl) == Len(bl) # 0

\* Mutant of NextPeriod: the two cadences exchanged.
NextPeriodSwapped(bl) == IF Len(bl) # 0 THEN EmptyPeriod ELSE FoundPeriod

\* detection_period after an attempt  (lines 195-201)
NextPeriod(bl) == IF ShouldPost(bl) THEN FoundPeriod ELSE EmptyPeriod

\* frame_detection.update({"people_count": len(bbox_list)})  (line 196)
WithCount(fd, bl) == Update(fd, "people_count", Len(bl))

\* The config lookups of one detection attempt, in the order made
\* (lines 180, 181, 187, 192); FALSE when one of them exits the process.
AttemptConfigOk(c) ==
    /\ get_config("robot", c.keys)
    /\ get_config("camera", c.keys)
    /\ (c.model_type \in ClassifiedTypes => get_config("classes", c.keys))
    /\ get_config("confidence", c.keys)

\* video_cap.release() on the last handle created.
Released(hs) == [hs EXCEPT ![Len(hs)] = @ + 1]

\* line 147: video_cap = rtsp_stream_init(stream_url); isOpened is not checked.
M_StreamInit ==
    /\ mpc = "init"
    /\ \E ok \in BOOLEAN : opened' = ok
    /\ handles' = <<0>>
    /\ mpc' = "load"
    /\ UNCHANGED <<config, path_name, frame_count, elapsed, detection_period,
                   posted_warning, frame_detection, bbox_list, exit_status, reported>>
    /\ UNCHANGED <<readerVars, mainHist, unguarded, last_good, detVars, logHist, callerVars>>

\* lines 151-159: the model lookup (sys.exit(1) outside the try block when
\* missing: the process exits there), then the loop state is set up.
M_LoadModel ==
    /\ mpc = "load"
    /\ IF get_config("models", config.keys)
       THEN /\ mpc' = "loop"
            /\ elapsed' = 0
            /\ detection_period' = InitialPeriod
            /\ frame_count' = 0
            /\ posted_warning' = FALSE
            /\ UNCHANGED exit_status
       ELSE /\ mpc' = "aborted"
            /\ exit_status' = 1
            /\ UNCHANGED <<elapsed, detection_period, frame_count, posted_warning>>
    /\ UNCHANGED <<config, path_name, handles, opened, frame_detection, bbox_list, reported>>
    /\ UNCHANGED <<readerVars, mainHist, unguarded, last_good, detVars, logHist, callerVars>>

\* line 163: path_name = listener.pathname, read without taking listener.lock.
M_ReadPath ==
    /\ mpc = "loop"
    /\ path_name' = pathname
    /\ unguarded' = IF lock = 0 THEN unguarded \cup {"read"} ELSE unguarded
    /\ iter' = NoIter
    /\ mpc' = "read"
    /\ UNCHANGED <<config, frame_count, elapsed, detection_period, posted_warning,
                   handles, opened, frame_detection, bbox_list, exit_status, reported>>
    /\ UNCHANGED <<readerVars, lastOutcome, nFail, nCool, interrupted,
                   last_good, detVars, logHist, callerVars>>

\* lines 164-176, success: count the frame, throttle, gate.  e is the clock
\* when the read returns.
M_FrameOk ==
    /\ mpc = "read"
    /\ opened
    /\ frame_count < MaxFrames
    /\ \E e \in { x \in TimePoints : x >= elapsed } :
         /\ frame_count' = frame_count + 1
         /\ IF DetectionDue(e, detection_period)
            THEN IF NotInArea(path_name)
                 THEN /\ nWarn' = IF WarnNow(posted_warning) THEN nWarn + 1 ELSE nWarn
                      /\ posted_warning' = TRUE
                      /\ UNCHANGED nResume
                      /\ elapsed' = 0
                      /\ iter' = [iter EXCEPT !.gate = "gated", !.margin = Margin(e, detection_period)]
                      /\ mpc' = "loop"
                 ELSE /\ nResume' = IF ResumeNow(posted_warning) THEN nResume + 1 ELSE nResume
                      /\ posted_warning' = FALSE
                      /\ UNCHANGED nWarn
                      /\ elapsed' = e
                      /\ iter' = [iter EXCEPT !.gate = "passed", !.margin = Margin(e, detection_period)]
                      /\ mpc' = "detect"
            ELSE /\ UNCHANGED <<posted_warning, logHist>>
                 /\ elapsed' = e
                 /\ iter' = [iter EXCEPT !.gate = "throttled", !.margin = Margin(e, detection_period)]
                 /\ mpc' = "loop"
    /\ UNCHANGED <<config, path_name, detection_period, handles, opened,
                   frame_detection, bbox_list, exit_status, reported>>
    /\ UNCHANGED <<readerVars, lastOutcome, nFail, nCool, interrupted,
                   unguarded, last_good, detVars, callerVars>>

\* lines 164, 206-207: the read failed.  The time it blocked is absorbed by
\* the cool-down that follows.
M_FrameFail ==
    /\ mpc = "read"
    /\ Len(handles) < MaxHandles
    /\ nFail' = nFail + 1
    /\ mpc' = "release"
    /\ UNCHANGED <<config, path_name, frame_count, elapsed, detection_period, posted_warning,
                   handles, opened, frame_detection, bbox_list, exit_status, reported>>
    /\ UNCHANGED <<readerVars, iter, lastOutcome, nCool, interrupted,
                   unguarded, last_good, detVars, logHist, callerVars>>

\* lines 178-192: build the envelope, look up the configuration (a missing
\* entry is sys.exit(1), which unwinds through the finally block), run the
\* detector and filter its boxes.  The time this takes is not kept: line 204
\* restarts the clock.
M_Detect ==
    /\ mpc = "detect"
    /\ IF AttemptConfigOk(config)
       THEN \E frame \in FrameSizes, results \in DetectorOutputs :
              LET r == detection(results, frame, [model_type |-> config.model_type]) IN
              /\ frame_detection' = r.frame_detection
              /\ bbox_list' = r.bbox_list
              /\ iter' = [iter EXCEPT !.detected = TRUE,
                                       !.survivors = Len(r.frame_detection.bounding_box)]
              /\ mpc' = "post"
              /\ UNCHANGED exit_status
       ELSE /\ exit_status' = 1
            /\ mpc' = "finally"
            /\ UNCHANGED <<frame_detection, bbox_list, iter>>
    /\ UNCHANGED <<config, path_name, frame_count, elapsed, detection_period, posted_warning,
                   handles, opened, reported>>
    /\ UNCHANGED <<readerVars, lastOutcome, nFail, nCool, interrupted,
                   unguarded, last_good, detVars, logHist, callerVars>>

\* What the endpoint does with a POST: a 2xx reply, another status, or no
\* reply (connection error, timeout).
PostOutcomes == {"ok", "http_error", "transport_error"}

\* Mutant of post_json_data: the HTTPError of raise_for_status is not caught.
post_json_data_uncaught(outcome) == [raised |-> outcome = "http_error", value |-> outcome = "ok"]

\* lines 21-31: post_json_data; raise_for_status raises HTTPError, a
\* RequestException, which the except clause turns into False.
post_json_data(outcome) == [raised |-> FALSE, value |-> outcome = "ok"]

\* lines 195-204: publish when a box survived, set the cadence, restart the
\* clock.  post_json_data returns True or False and the result is dropped;
\* an exception out of it would leave the loop through the finally block.
M_Post ==
    /\ mpc = "post"
    /\ \E outcome \in IF ShouldPost(bbox_list) THEN PostOutcomes ELSE {""} :
         LET r == IF ShouldPost(bbox_list) THEN post_json_data(outcome)
                                           ELSE [raised |-> FALSE, value |-> FALSE]
         IN  /\ iter' = IF ShouldPost(bbox_list)
                        THEN [iter EXCEPT !.published = @ + 1,
                                          !.envelope = WithCount(frame_detection, bbox_list),
                                          !.post = outcome]
                        ELSE iter
             /\ IF r.raised
                THEN /\ exit_status' = 1
                     /\ mpc' = "finally"
                     /\ UNCHANGED <<detection_period, lastOutcome, elapsed,
                                    frame_detection, bbox_list>>
                ELSE /\ detection_period' = NextPeriod(bbox_list)
                     /\ lastOutcome' = IF Len(bbox_list) > 0 THEN "some" ELSE "zero"
                     /\ elapsed' = 0
                     /\ frame_detection' = NoEnvelope
                     /\ bbox_list' = <<>>
                     /\ mpc' = "loop"
                     /\ UNCHANGED exit_status
    /\ UNCHANGED <<config, path_name, frame_count, posted_warning, handles, opened, reported>>
    /\ UNCHANGED <<readerVars, nFail, nCool, interrupted, unguarded, last_good, detVars, logHist, callerVars>>

\* Mutant of M_Release: the failed handle is not released before the reopen.
M_ReleaseSkipped ==
    /\ mpc = "release"
    /\ opened' = FALSE
    /\ mpc' = "sleep"
    /\ UNCHANGED <<config, path_name, frame_count, elapsed, detection_period, handles,
                   posted_warning, frame_detection, bbox_list, exit_status, reported>>
    /\ UNCHANGED <<readerVars, mainHist, unguarded, last_good, detVars, logHist, callerVars>>

\* line 209: video_cap.release()
M_Release ==
    /\ mpc = "release"
    /\ handles' = Released(handles)
    /\ opened' = FALSE
    /\ mpc' = "sleep"
    /\ UNCHANGED <<config, path_name, frame_count, elapsed, detection_period,
                   posted_warning, frame_detection, bbox_list, exit_status, reported>>
    /\ UNCHANGED <<readerVars, mainHist, unguarded, last_good, detVars, logHist, callerVars>>

\* line 210: time.sleep(100)
M_Sleep ==
    /\ mpc = "sleep"
    /\ elapsed' = Advance(elapsed, CoolDown)
    /\ nCool' = nCool + 1
    /\ mpc' = "reopen"
    /\ UNCHANGED <<config, path_name, frame_count, detection_period, posted_warning,
                   handles, opened, frame_detection, bbox_list, exit_status, reported>>
    /\ UNCHANGED <<readerVars, iter, lastOutcome, nFail, interrupted,
                   unguarded, last_good, detVars, logHist, callerVars>>

\* lines 211-214: video_cap = rtsp_stream_init(stream_url); leave the loop
\* when the new handle is not opened.
M_Reopen ==
    /\ mpc = "reopen"
    /\ handles' = Append(handles, 0)
    /\ \E ok \in BOOLEAN :
         /\ opened' = ok
         /\ mpc' = IF ok THEN "loop" ELSE "finally"
    /\ UNCHANGED <<config, path_name, frame_count, elapsed, detection_period,
                   posted_warning, frame_detection, bbox_list, exit_status, reported>>
    /\ UNCHANGED <<readerVars, mainHist, unguarded, last_good, detVars, logHist, callerVars>>

\* lines 216-217: a KeyboardInterrupt delivered anywhere inside the try block.
M_Interrupt ==
    /\ mpc \in TryPcs
    /\ interrupted' = TRUE
    /\ mpc' = "finally"
    /\ UNCHANGED <<config, path_name, frame_count, elapsed, detection_period,
                   posted_warning, handles, opened, frame_detection, bbox_list,
                   exit_status, reported>>
    /\ UNCHANGED <<readerVars, iter, lastOutcome, nFail, nCool,
                   unguarded, last_good, detVars, logHist, callerVars>>

\* lines 218-221, 229: print the frame count, video_cap.release(); main
\* returns (or the pending SystemExit resumes) and, main being the last
\* statement of the script, the process exits, its daemon thread with it.
M_Finally ==
    /\ mpc = "finally"
    /\ reported' = frame_count
    /\ handles' = Released(handles)
    /\ opened' = FALSE
    /\ exit_status' = IF exit_status = -1 THEN 0 ELSE exit_status
    /\ mpc' = "done"
    /\ UNCHANGED <<config, path_name, frame_count, elapsed, detection_period,
                   posted_warning, frame_detection, bbox_list>>
    /\ UNCHANGED <<readerVars, mainHist, unguarded, last_good, detVars, logHist, callerVars>>

MainNext ==
    \/ M_StreamInit \/ M_LoadModel \/ M_ReadPath \/ M_FrameOk \/ M_FrameFail
    \/ M_Detect \/ M_Post \/ M_Release \/ M_Sleep \/ M_Reopen
    \/ M_Interrupt \/ M_Finally

\* ---------------------------------------------------------- reader threads
\* line 90: while self.running
T_Check(t) ==
    /\ ~Exited
    /\ tpc[t] = "check"
    /\ tpc' = [tpc EXCEPT ![t] = IF running THEN "fetch" ELSE "dead"]
    /\ UNCHANGED <<running, thread, pathname, last_detection, lock, det>>
    /\ UNCHANGED <<config, mainVars, mainHist, unguarded, last_good, detVars, logHist, callerVars>>

\* lines 91-96: get_detection(), and for a truthy detection
\* extract_pathname(), which assigns self.pathname outside the lock.  An
\* exception ends the loop at line 107.
T_Poll(t) ==
    /\ ~Exited
    /\ tpc[t] = "fetch"
    /\ \E resp \in Responses :
         LET g == get_detection(resp)
             name == InPathNameOf(g.value)
         IN  /\ last_good' = IF UsableName(resp) # Missing THEN UsableName(resp) ELSE last_good
             /\ IF g.raised
                THEN /\ tpc' = [tpc EXCEPT ![t] = "dead"]
                     /\ UNCHANGED <<pathname, det, unguarded>>
                ELSE IF ~Truthy(g.value)
                THEN /\ tpc' = [tpc EXCEPT ![t] = "sleep"]
                     /\ UNCHANGED <<pathname, det, unguarded>>
                ELSE IF g.value.type # "dict"
                THEN /\ tpc' = [tpc EXCEPT ![t] = "dead"]
                     /\ UNCHANGED <<pathname, det, unguarded>>
                ELSE /\ pathname' = name
                     /\ unguarded' = IF lock # t THEN unguarded \cup {"write"} ELSE unguarded
                     /\ IF TruthyName(name)
                        THEN /\ tpc' = [tpc EXCEPT ![t] = "lock"]
                             /\ det' = [det EXCEPT ![t] = g.value]
                        ELSE /\ tpc' = [tpc EXCEPT ![t] = "sleep"]
                             /\ UNCHANGED det
    /\ UNCHANGED <<running, thread, last_detection, lock>>
    /\ UNCHANGED <<config, mainVars, mainHist, detVars, logHist, callerVars>>

\* line 99: with self.lock (acquire)
T_Lock(t) ==
    /\ ~Exited
    /\ tpc[t] = "lock"
    /\ lock = 0
    /\ lock' = t
    /\ tpc' = [tpc EXCEPT ![t] = "store"]
    /\ UNCHANGED <<running, thread, pathname, last_detection, det>>
    /\ UNCHANGED <<config, mainVars, mainHist, unguarded, last_good, detVars, logHist, callerVars>>

\* line 100: self.last_detection = detection, and the lock is released.
T_Store(t) ==
    /\ ~Exited
    /\ tpc[t] = "store"
    /\ last_detection' = det[t]
    /\ det' = [det EXCEPT ![t] = PyNone]
    /\ lock' = 0
    /\ tpc' = [tpc EXCEPT ![t] = "sleep"]
    /\ UNCHANGED <<running, thread, pathname>>
    /\ UNCHANGED <<config, mainVars, mainHist, unguarded, last_good, detVars, logHist, callerVars>>

\* line 105: time.sleep(self.poll_interval) returns.
T_Sleep(t) ==
    /\ ~Exited
    /\ tpc[t] = "sleep"
    /\ tpc' = [tpc EXCEPT ![t] = "check"]
    /\ UNCHANGED <<running, thread, pathname, last_detection, lock, det>>
    /\ UNCHANGED <<config, mainVars, mainHist, unguarded, last_good, detVars, logHist, callerVars>>

ReaderNext ==
    \E t \in Threads : T_Check(t) \/ T_Poll(t) \/ T_Lock(t) \/ T_Store(t) \/ T_Sleep(t)

Next == MainNext \/ ReaderNext

Spec == Init /\ [][Next]_vars

\* ------------------------------------------- start_reading / stop_reading
\* A thread that has been started and has not ended.
Alive(t) == tpc[t] \notin {"unborn", "dead"}

\* The id the next threading.Thread gets.
NewThread == CHOOSE t \in Threads : tpc[t] = "unborn" /\ \A u \in Threads : u < t => tpc[u] # "unborn"

\* Mutant of AlreadyRunning: start_reading without its guard.
AlreadyRunningIgnored(r) == FALSE

\* if self.running: return  (lines 114-116)
AlreadyRunning(r) == r

\* Mutant of AlreadyStopped: stop_reading without its guard.
AlreadyStoppedIgnored(r) == FALSE

\* if not self.running: return  (lines 125-126)
AlreadyStopped(r) == ~r

\* DetectionReader.__init__ with auto_start=False.
InitReaderIdle ==
    /\ running = FALSE
    /\ thread = 0
    /\ pathname = ""
    /\ last_detection = PyNone
    /\ lock = 0
    /\ tpc = [t \in Threads |-> "unborn"]
    /\ det = [t \in Threads |-> PyNone]
    /\ unguarded = {}
    /\ last_good = ""
    /\ cpc = "idle"
    /\ last_call = NoCall

\* lines 112-121: start_reading()
R_Start ==
    /\ cpc = "idle"
    /\ last_call' = [op |-> "start", before |-> running, asleep |-> {}]
    /\ IF AlreadyRunning(running)
       THEN UNCHANGED <<running, thread, tpc>>
       ELSE /\ \E t \in Threads : tpc[t] = "unborn"
            /\ running' = TRUE
            /\ thread' = NewThread
            /\ tpc' = [tpc EXCEPT ![NewThread] = "check"]
    /\ UNCHANGED <<pathname, last_detection, lock, det, cpc>>
    /\ UNCHANGED <<config, mainVars, mainHist, unguarded, last_good, detVars, logHist>>

\* lines 123-131: stop_reading() up to the join; the join is entered when
\* self.thread is alive.
R_Stop ==
    /\ cpc = "idle"
    /\ last_call' = [op |-> "stop", before |-> running,
                     asleep |-> IF running THEN { t \in Threads : tpc[t] = "sleep" } ELSE {}]
    /\ IF AlreadyStopped(running)
       THEN UNCHANGED <<running, cpc>>
       ELSE /\ running' = FALSE
            /\ cpc' = IF thread # 0 /\ Alive(thread) THEN "join" ELSE "idle"
    /\ UNCHANGED <<thread, pathname, last_detection, lock, tpc, det>>
    /\ UNCHANGED <<config, mainVars, mainHist, unguarded, last_good, detVars, logHist>>

\* line 132: self.thread.join(timeout=5) returns because the thread ended.
R_JoinDone ==
    /\ cpc = "join"
    /\ ~Alive(thread)
    /\ cpc' = "idle"
    /\ UNCHANGED <<readerVars, last_call>>
    /\ UNCHANGED <<config, mainVars, mainHist, unguarded, last_good, detVars, logHist>>

\* line 132: self.thread.join(timeout=5) returns because the 5 seconds are
\* over; the thread is still in its fetch or in its sleep.
R_JoinTimeout ==
    /\ cpc = "join"
    /\ Alive(thread)
    /\ tpc[thread] \in {"fetch", "sleep"}
    /\ cpc' = "idle"
    /\ UNCHANGED <<readerVars, last_call>>
    /\ UNCHANGED <<config, mainVars, mainHist, unguarded, last_good, detVars, logHist>>

CallerNext == R_Start \/ R_Stop \/ R_JoinDone \/ R_JoinTimeout

\* A DetectionReader driven by any sequence of start_reading / stop_reading
\* calls, as in detection_reader.py's own main; the stream loop is not run.
InitAPI ==
    /\ InitMain /\ config = [model_type |-> "person", keys |-> AllKeys]
    /\ InitReader \/ InitReaderIdle
    /\ InitDetIdle

NextAPI == ReaderNext \/ CallerNext

SpecAPI == InitAPI /\ [][NextAPI]_vars

\* --------------------------------------------------- detection() on its own
\* Boxes the detector may return, in 1/SubPixel pixels.
BoxPool ==
    { Box(0, 0, 8, 2), Box(0, 0, 18, 2), Box(0, 0, 8, 9),
      Box(1, 0, 18, 2), Box(0, 0, 20, 2), Box(-3, 0, 6, 2) }

DetFrames == { <<10, 1>>, <<4, 5>> }

BoxLists == UNION { [1..n -> BoxPool] : n \in 0..MaxBoxes }

ResultPool == { Result(FALSE, <<>>) } \cup { Result(TRUE, bs) : bs \in BoxLists }

ResultLists ==
    { <<>> } \cup { <<r>> : r \in ResultPool }
    \cup { <<Result(FALSE, <<>>), r>> : r \in ResultPool }
    \cup { <<r, Result(TRUE, <<b>>)>> : r \in ResultPool, b \in BoxPool }

InitDetection ==
    /\ InitMain /\ config = [model_type |-> "person", keys |-> AllKeys]
    /\ InitReader
    /\ d_frame \in DetFrames
    /\ d_results \in ResultLists
    /\ d_out = NotApplied

\* lines 34-55: one call of detection() on the drawn frame and results.
D_Apply ==
    /\ ~d_out.applied
    /\ d_out' = LET r == detection(d_results, d_frame, [model_type |-> config.model_type])
                IN  [frame_detection |-> r.frame_detection, bbox_list |-> r.bbox_list,
                     applied |-> TRUE]
    /\ UNCHANGED <<d_frame, d_results>>
    /\ UNCHANGED <<config, mainVars, readerVars, mainHist, unguarded, last_good,
                   logHist, callerVars>>

NextDetection == D_Apply

SpecDetection == InitDetection /\ [][NextDetection]_vars

\* ================================================================= claims

\* ---- C1 ----------------------------------------------------------------
\* C1: in an iteration whose location, read at the top of the iteration,
\* is not an approved one ("a" or "b"; the empty string and None included),
\* the detector is not invoked and nothing is published.
C1_NoDetectionOutsideArea ==
    path_name \notin {"a", "b"} =>
        /\ ~iter.detected
        /\ iter.published = 0
        /\ mpc \notin {"detect", "post"}

\* A due iteration was gated out on the location None after an earlier
\* detection attempt had gone through.
C1_Witness ==
    /\ mpc = "loop"
    /\ path_name = None
    /\ posted_warning
    /\ lastOutcome # "none"
    /\ elapsed = 0

\* ---- C2 ----------------------------------------------------------------
\* C2: the cadence is 3 until the first detection attempt completes, then
\* 15 when the last attempt left a box and 7 when it left none; nothing else
\* changes it.
C2_CadenceFollowsLastAttempt ==
    detection_period = CASE lastOutcome = "none" -> 3
                         [] lastOutcome = "some" -> 15
                         [] lastOutcome = "zero" -> 7

\* After an attempt that left a box: a gated-out iteration and a failed read
\* later, the cadence still 15.
C2_Witness ==
    /\ lastOutcome = "some"
    /\ detection_period = 15
    /\ posted_warning
    /\ nFail > 0
    /\ mpc = "loop"

\* ---- C3 ----------------------------------------------------------------
\* The boxes the detector returned, in order, with their areas.
C3_Input == AllBoxes(d_results)

C3_Trunc(c) == IF c >= 0 THEN c \div SubPixel ELSE -((-c) \div SubPixel)

C3_TruncSmall(b) ==
    10 * ((C3_Trunc(b.x2) - C3_Trunc(b.x1)) * (C3_Trunc(b.y2) - C3_Trunc(b.y1)))
        < 9 * (d_frame[1] * d_frame[2])

C3_ExactSmall(b) ==
    10 * ((b.x2 - b.x1) * (b.y2 - b.y1))
        < 9 * (d_frame[1] * d_frame[2]) * (SubPixel * SubPixel)

\* C3 as amended: bounding_box holds, in the detector's order, exactly the
\* boxes whose coordinates truncated to integers give an area strictly below
\* 0.9 of the frame area, each with the truncated x1, y1, x2, y2 and
\* width = x2 - x1, height = y2 - y1 of the truncated values.
C3_FilterOnTruncated ==
    d_out.applied =>
        LET want == SelectSeq(C3_Input, C3_TruncSmall)
            got == d_out.frame_detection.bounding_box
        IN  /\ Len(got) = Len(want)
            /\ \A i \in 1..Len(want) :
                 /\ got[i].x1 = C3_Trunc(want[i].x1)
                 /\ got[i].y1 = C3_Trunc(want[i].y1)
                 /\ got[i].x2 = C3_Trunc(want[i].x2)
                 /\ got[i].y2 = C3_Trunc(want[i].y2)
                 /\ got[i].width = got[i].x2 - got[i].x1
                 /\ got[i].height = got[i].y2 - got[i].y1
                 /\ DOMAIN got[i] = {"x1", "y1", "x2", "y2", "width", "height"}

\* A box at exactly 0.9 of the frame was dropped, and a box with fractional
\* coordinates was kept.
C3_Witness ==
    /\ d_out.applied
    /\ d_frame = <<10, 1>>
    /\ d_results = <<Result(TRUE, <<Box(0, 0, 9 * SubPixel, SubPixel), Box(-3, 0, 6, 2)>>)>>
    /\ Len(d_out.frame_detection.bounding_box) = 1

\* C3 as stated: bounding_box holds exactly the boxes whose own area is
\* strictly below 0.9 of the frame area, with x1, y1, x2, y2 unmodified.
C3_FilterOnExact ==
    d_out.applied =>
        LET want == SelectSeq(C3_Input, C3_ExactSmall)
            got == d_out.frame_detection.bounding_box
        IN  /\ Len(got) = Len(want)
            /\ \A i \in 1..Len(want) :
                 /\ got[i].x1 * SubPixel = want[i].x1
                 /\ got[i].y1 * SubPixel = want[i].y1
                 /\ got[i].x2 * SubPixel = want[i].x2
                 /\ got[i].y2 * SubPixel = want[i].y2
                 /\ got[i].width = got[i].x2 - got[i].x1
                 /\ got[i].height = got[i].y2 - got[i].y1

\* ---- C4 ----------------------------------------------------------------
\* C4: a detection attempt publishes exactly when a box survived, and a
\* published envelope carries people_count = number of surviving boxes =
\* length of its bounding_box (so at least 1).
C4_PublishIffSurvivor ==
    /\ iter.published > 0 =>
         /\ iter.published = 1
         /\ iter.survivors >= 1
         /\ iter.envelope.people_count = iter.survivors
         /\ iter.envelope.people_count = Len(iter.envelope.bounding_box)
    /\ (iter.detected /\ mpc \in {"loop", "read"}) =>
         (iter.published = 1 <=> iter.survivors >= 1)

\* An envelope with two boxes was published.
C4_Witness ==
    /\ iter.published = 1
    /\ iter.envelope.people_count = 2
    /\ mpc = "loop"

\* ---- C5 ----------------------------------------------------------------
\* C5: every read and every write of the location value is made while
\* holding the lock.
C5_EveryAccessLocked == unguarded = {}

\* ---- C6 ----------------------------------------------------------------
\* C6: the location value the main loop reads is the identifier of the most
\* recent usable record, or the initial empty value: a poll that yields no
\* usable identifier leaves it unchanged.
C6_PathnameIsLastUsable == pathname = last_good

\* ---- C7 ----------------------------------------------------------------
\* C7: whatever the feed replies, a reader thread leaves its loop only after
\* an explicit stop.
C7_ThreadEndsOnlyOnStop == \A t \in Threads : tpc[t] = "dead" => ~running

\* ---- C8 ----------------------------------------------------------------
C8_Unreleased == { i \in DOMAIN handles : handles[i] = 0 }

C8_Reopens == IF Len(handles) = 0 THEN 0 ELSE Len(handles) - 1

\* C8: each read failure is followed by one release of the current handle,
\* one cool-down and one reopen, in that order; a handle is created only
\* when every earlier one has been released; the loop goes on only with an
\* opened handle after a reopen, and N failures give N cool-downs and N
\* reopens.
C8_ReconnectDiscipline ==
    /\ Cardinality(C8_Unreleased) <= 1
    /\ \A i \in DOMAIN handles : i < Len(handles) => handles[i] >= 1
    /\ mpc \in {"loop", "read", "detect", "post"} =>
         /\ nFail = nCool /\ nCool = C8_Reopens
         /\ \A i \in DOMAIN handles : handles[i] = IF i < Len(handles) THEN 1 ELSE 0
         /\ Len(handles) > 1 => opened
    /\ mpc = "release" =>
         /\ nFail = nCool + 1 /\ nCool = C8_Reopens
         /\ handles[Len(handles)] = 0
    /\ mpc = "sleep" =>
         /\ nFail = nCool + 1 /\ nCool = C8_Reopens
         /\ handles[Len(handles)] = 1
    /\ mpc = "reopen" =>
         /\ nFail = nCool /\ nCool = C8_Reopens + 1
         /\ handles[Len(handles)] = 1
    /\ (mpc = "finally" /\ ~interrupted /\ exit_status = -1) =>
         /\ ~opened
         /\ nFail = nCool /\ nCool = C8_Reopens

\* Two read failures in a row, each followed by a reopen that succeeded, and
\* the loop is reading frames again.
C8_Witness ==
    /\ mpc = "read"
    /\ frame_count = 0
    /\ nFail = 2 /\ nCool = 2
    /\ Len(handles) = 3
    /\ opened

\* ---- C9 ----------------------------------------------------------------
\* C9: when the loop has ended and shutdown is over, every handle has been
\* released exactly once and the frame counter has been reported.
C9_ReleasedExactlyOnce ==
    mpc = "done" =>
        /\ \A i \in DOMAIN handles : handles[i] = 1
        /\ reported = frame_count

\* ---- C10 ---------------------------------------------------------------
\* C10: after an interrupt the reader is stopped before the stream handle is
\* released: it is not Running once the handle has been released.
C10_ReaderStoppedBeforeRelease == (interrupted /\ mpc = "done") => ~running

\* ---- C11 ---------------------------------------------------------------
\* C11: with a configuration that lacks a required entry (model, robot,
\* camera, class list or confidence) the process exits before the loop has
\* read a frame, run the detector or published anything.
C11_FatalBeforeAnyFrame ==
    AllKeys \ config.keys # {} =>
        /\ frame_count = 0
        /\ ~iter.detected
        /\ iter.published = 0


\* ---- C12 ---------------------------------------------------------------
\* A step that is a start_reading() call.
C12_StartCall == last_call' # last_call /\ last_call'.op = "start"

\* A step that is a stop_reading() call.
C12_StopCall == last_call' # last_call /\ last_call'.op = "stop"

C12_Spawned == { t \in Threads : tpc[t] = "unborn" /\ tpc'[t] # "unborn" }

\* C12: the poller has the two states Stopped and Running (the running
\* flag).  start on Stopped gives Running and starts exactly one thread;
\* start on Running changes nothing and starts no thread; stop on Running
\* gives Stopped; stop on Stopped changes nothing; and no other step starts
\* a thread or sets the flag.
C12_TwoStateMachine ==
    [][ /\ (C12_StartCall /\ ~running) =>
              /\ running'
              /\ Cardinality(C12_Spawned) = 1
              /\ \A t \in Threads \ C12_Spawned : tpc'[t] = tpc[t]
              /\ thread' \in C12_Spawned
        /\ (C12_StartCall /\ running) => UNCHANGED <<readerVars, cpc>>
        /\ (C12_StopCall /\ running) => ~running' /\ C12_Spawned = {}
        /\ (C12_StopCall /\ ~running) => UNCHANGED <<readerVars, cpc>>
        /\ ~(C12_StartCall \/ C12_StopCall) => UNCHANGED running /\ C12_Spawned = {}
      ]_vars

\* A second thread was started by a start on a Stopped poller, after a stop
\* had stopped the first one.
C12_Witness ==
    /\ last_call = [op |-> "start", before |-> FALSE, asleep |-> {}]
    /\ running
    /\ thread = 2

\* ---- C13 ---------------------------------------------------------------
\* C13: a thread that was in its sleep between two polls when stop_reading
\* gave the stop signal has left that sleep by the time stop_reading
\* returns; stop_reading waits for the thread no longer than its join.
C13_StopWakesSleeper ==
    (cpc = "idle" /\ last_call.op = "stop") =>
        \A t \in last_call.asleep : tpc[t] # "sleep"

\* ---- C14 ---------------------------------------------------------------
\* C14: warnings and resume notices alternate, starting with a warning: the
\* number of warnings printed is the number of resume notices or one more,
\* and it is one more exactly while the warning flag is set.
C14_WarningsAlternate ==
    /\ nResume <= nWarn
    /\ nWarn <= nResume + 1
    /\ posted_warning <=> (nWarn = nResume + 1)

\* A second warning, printed after the resume notice that followed the first.
C14_Witness == nWarn = 2 /\ nResume = 1 /\ posted_warning

\* ---- C15 ---------------------------------------------------------------
\* C15: an attempt with a surviving box makes one POST and no second one;
\* whatever the endpoint does with it (2xx, other status, no reply) the loop
\* goes on to the next iteration with cadence 15 and the clock restarted.
C15_PublishFireAndForget ==
    /\ iter.published <= 1
    /\ (iter.published = 1) <=> (iter.post # "")
    /\ iter.post # "" =>
         /\ detection_period = FoundPeriod
         /\ elapsed = 0
         /\ lastOutcome = "some"
         /\ mpc = "loop" \/ (interrupted /\ mpc \in {"finally", "done"})

\* The endpoint answered the POST with an error status and the loop is at
\* the top of its next iteration.
C15_Witness ==
    /\ iter.post = "http_error"
    /\ iter.published = 1
    /\ mpc = "loop"
    /\ detection_period = FoundPeriod

\* ---- C16 ---------------------------------------------------------------
\* C16: at the step that makes the POST, the location the reader holds is in
\* the approved set.
C16_PublishInsideArea ==
    [][ iter'.published > iter.published => pathname \in valid_path ]_vars

\* ---- C17 ---------------------------------------------------------------
\* A step in which a frame read succeeds and the throttle of line 167 is
\* evaluated.
C17_FrameStep == iter.gate = "" /\ iter'.gate # ""

\* A throttled iteration counts the frame and does nothing else: no
\* detection, no POST, cadence, warning flag and attempt time as they were.
C17_ThrottledQuiet ==
    iter'.gate = "throttled" =>
        /\ frame_count' = frame_count + 1
        /\ mpc' = "loop"
        /\ ~iter'.detected
        /\ iter'.published = 0
        /\ elapsed' >= elapsed
        /\ UNCHANGED <<detection_period, posted_warning, nWarn, nResume, lastOutcome,
                       frame_detection, bbox_list, handles, opened>>

\* C17 as amended: a frame goes on to gating and detection exactly when the
\* time since the last attempt is more than the cadence; at the cadence or
\* below it the iteration is throttled and only counts the frame.
C17_ThrottleStrict ==
    [][ C17_FrameStep =>
          /\ (iter'.gate = "throttled") <=> (iter'.margin # "above")
          /\ C17_ThrottledQuiet ]_vars

\* A frame read exactly one cadence after the last attempt was throttled.
C17_Witness == iter.gate = "throttled" /\ iter.margin = "equal" /\ mpc = "loop"

\* C17 as stated: a frame goes on to gating and detection exactly when the
\* time since the last attempt is at least the cadence, and is throttled,
\* only counting the frame, exactly when it is below.
C17_ThrottleInclusive ==
    [][ C17_FrameStep =>
          /\ (iter'.gate = "throttled") <=> (iter'.margin = "below")
          /\ C17_ThrottledQuiet ]_vars

\* ---- C18 ---------------------------------------------------------------
\* C18: whatever start_reading and stop_reading calls are made, at most one
\* reader thread is alive.
C18_AtMostOneThread == Cardinality({ t \in Threads : Alive(t) }) <= 1

\* ---- C19 ---------------------------------------------------------------
\* C19: while the running flag is set, the thread start_reading created is
\* alive.
C19_RunningMeansAlive == running => (thread # 0 /\ Alive(thread))

====
